---- MODULE Spec2Model ----
(***************************************************************************)
(* Mandala Portfolio Builder: the pattern generator (MandalaCanvas), the   *)
(* scene exporter (exportSVG) and the App state around them.               *)
(*                                                                         *)
(* Geometry is exact: an angle is a reduced fraction of a full turn, so    *)
(* cos/sin are 360-degree periodic and two rim points are equal exactly    *)
(* when their angles agree modulo a turn.  Opacities are in hundredths.    *)
(***************************************************************************)
EXTENDS Integers, Sequences, FiniteSets, TLC

VARIABLES
    mounted,        \* the first commit of <App/> has happened
    active,         \* useState 'builder'|'licenses'|'store'|'cms'|'seo'
    spec,           \* useState<MandalaSpec>
    svgRef,         \* svgRef.current: the mounted <svg ref={svgRef}> tree, or NoNode
    license,        \* useState<License|null>, by id
    cart,           \* useState<CartItem[]>
    storeOpen,      \* useState(false)
    checkoutState,  \* useState 'idle'|'processing'|'success'|null
    assets,         \* useState<Asset[]>
    seo,            \* useState<SEOState>
    docTitle,       \* document.title
    docMeta,        \* content of <meta name="description">, or Null
    docBody,        \* number of <a> elements left appended to document.body
    objectUrls,     \* number of object URLs created and not yet revoked
    lastExport,     \* outcome of exportSVG when it was the last handler run
    scene           \* result of a direct call of the generator

vars == <<mounted, active, spec, svgRef, license, cart, storeOpen,
          checkoutState, assets, seo, docTitle, docMeta, docBody,
          objectUrls, lastExport, scene>>

Null == "null"

\* The value of a reference that holds no element.
NoNode == [tag |-> "#none"]

-----------------------------------------------------------------------------
(* Bounds of the exploration                                               *)

GenSegmentsBelow == 4   \* generator inputs start this far below the slider minimum
GenSegmentsAbove == 2   \* generator inputs end this far above the slider maximum
MaxSliderSpan == 0      \* slider positions explored in the App: the lowest
                        \* MaxSliderSpan + 1 ones and the initial one
MaxCartQty == 1         \* total quantity in the cart
MaxAssets == 2          \* assets in the CMS list
MaxUrls == 1            \* object URLs alive at once

-----------------------------------------------------------------------------
(* Program constants                                                       *)

SliderMin == 3
SliderMax == 48
cx == 210
cy == 210
outerR == 140
innerR == 84            \* outerR * 0.6
SvgSize == 420

Colors == {"#ff7f50", "#5200ff"}
Symmetries == {"radial", "mirror"}
Tabs == {"builder", "licenses", "store", "cms", "seo"}
LICENSES == {"standard-commercial", "editorial", "exclusive"}
STORE_ITEMS == {"print-a4", "print-a3", "svg-asset"}

InitSpec ==
    [segments |-> 12, symmetry |-> "radial", color |-> "#ff7f50", showWatermark |-> TRUE]

InitSeo ==
    [title |-> "Mandala Portfolio", description |-> "A handcrafted mandala portfolio",
     keywords |-> "mandala, portfolio, art"]

-----------------------------------------------------------------------------
(* Helpers                                                                 *)

clamp(n, min, max) ==
    LET lo == IF max < n THEN max ELSE n
    IN  IF min > lo THEN min ELSE lo

RECURSIVE GCD(_, _)
GCD(a, b) == IF b = 0 THEN a ELSE GCD(b, a % b)

\* The angle k * step with step = 360 / n, as a reduced fraction of a turn.
Angle(k, n) ==
    LET m == k % n
        g == GCD(n, m)
    IN  <<m \div g, n \div g>>

\* The point (cx + cos(a) * r, cy + sin(a) * r).
Point(a, r) == [cx |-> cx, cy |-> cy, ang |-> a, r |-> r]

Center == Point(<<0, 1>>, 0)

\* for (let i = 0; i < spec.segments; i++)
LoopIndicesFromOne(n) == 1 .. (n - 1)
LoopIndices(n) == 0 .. (n - 1)

Polygon(key, i, a1, a2, r, fill, opacity) ==
    [tag |-> "polygon", key |-> <<key, i>>,
     points |-> <<Center, Point(a1, r), Point(a2, r)>>,
     fill |-> fill, opacity |-> opacity, stroke |-> "none"]

\* wedgesOuter: aStart = i * step, aEnd = i * step + step
WedgesOuter(s) ==
    [j \in 1 .. Cardinality(LoopIndices(s.segments)) |->
        Polygon("ow", j - 1, Angle(j - 1, s.segments), Angle(j, s.segments),
                outerR, s.color, 80)]

WedgesInner(s) ==
    [j \in 1 .. Cardinality(LoopIndices(s.segments)) |->
        Polygon("iw", j - 1, Angle(j - 1, s.segments), Angle(j, s.segments),
                innerR, s.color, 25)]

WedgesMirrorFromStep(s) ==
    IF s.symmetry = "mirror"
    THEN [j \in 1 .. 2 * Cardinality(LoopIndices(s.segments)) |->
            LET i == (j - 1) \div 2
            IN  IF j % 2 = 1
                THEN Polygon("mw", i, Angle(0 - i - 1, s.segments),
                             Angle(0 - i - 2, s.segments), outerR, s.color, 60)
                ELSE Polygon("mi", i, Angle(0 - i - 1, s.segments),
                             Angle(0 - i - 2, s.segments), innerR, s.color, 15)]
    ELSE <<>>
\* wedgesMirror: aStart = -i * step, aEnd = -(i * step) - step; for each i
\* the outer wedge mw-i is pushed, then the inner wedge mi-i.
WedgesMirror(s) ==
    IF s.symmetry = "mirror"
    THEN [j \in 1 .. 2 * Cardinality(LoopIndices(s.segments)) |->
            LET i == (j - 1) \div 2
            IN  IF j % 2 = 1
                THEN Polygon("mw", i, Angle(0 - i, s.segments),
                             Angle(0 - i - 1, s.segments), outerR, s.color, 60)
                ELSE Polygon("mi", i, Angle(0 - i, s.segments),
                             Angle(0 - i - 1, s.segments), innerR, s.color, 15)]
    ELSE <<>>

Defs(s) ==
    [tag |-> "defs",
     children |-> <<[tag |-> "circle", id |-> "grad", at |-> Center, r |-> outerR,
                     fill |-> s.color]>>]

BackgroundRect ==
    [tag |-> "rect", x |-> 0, y |-> 0, width |-> SvgSize, height |-> SvgSize,
     fill |-> "#111", opacity |-> 0]

WatermarkBySymmetry(s) ==
    IF s.symmetry = "mirror"
    THEN <<[tag |-> "text", at |-> Center, textAnchor |-> "middle", fill |-> "white",
            opacity |-> 15, fontSize |-> 42, fontFamily |-> "Inter",
            content |-> "MANDALA"]>>
    ELSE <<>>
\* {spec.showWatermark && (<text ...>MANDALA</text>)}
Watermark(s) ==
    IF s.showWatermark
    THEN <<[tag |-> "text", at |-> Center, textAnchor |-> "middle", fill |-> "white",
            opacity |-> 15, fontSize |-> 42, fontFamily |-> "Inter",
            content |-> "MANDALA"]>>
    ELSE <<>>

CenterDot == [tag |-> "circle", at |-> Center, r |-> 6, fill |-> "#fff", opacity |-> 30]

\* The children of the <svg> MandalaCanvas returns, in JSX order.
ChildrenDotFirst(s) ==
    <<Defs(s), BackgroundRect>> \o WedgesInner(s) \o WedgesOuter(s) \o WedgesMirror(s)
        \o <<CenterDot>> \o Watermark(s)
Children(s) ==
    <<Defs(s), BackgroundRect>> \o WedgesOuter(s) \o WedgesInner(s) \o WedgesMirror(s)
        \o Watermark(s) \o <<CenterDot>>

MandalaCanvas(s) ==
    [tag |-> "svg", width |-> SvgSize, height |-> SvgSize, viewBox |-> "0 0 420 420",
     ariaLabel |-> "Mandala canvas", role |-> "img", children |-> Children(s)]

\* The component has no throw statement: every call returns an element.
GeneratorThrows(s) == FALSE

-----------------------------------------------------------------------------
(* Direct calls of the generator over a range of inputs                    *)

GenSegments == (SliderMin - GenSegmentsBelow) .. (SliderMax + GenSegmentsAbove)

GenInputs ==
    [segments : GenSegments, symmetry : Symmetries, color : Colors, showWatermark : BOOLEAN]

AppIdle ==
    /\ mounted = FALSE
    /\ active = "builder"
    /\ svgRef = NoNode
    /\ license = "standard-commercial"
    /\ cart = <<>>
    /\ storeOpen = FALSE
    /\ checkoutState = Null
    /\ assets = <<>>
    /\ seo = InitSeo
    /\ docTitle = ""
    /\ docMeta = Null
    /\ docBody = 0
    /\ objectUrls = 0
    /\ lastExport = NoNode

InitGen ==
    /\ AppIdle
    /\ spec \in GenInputs
    /\ scene = NoNode

Generate ==
    /\ scene = NoNode
    /\ scene' = MandalaCanvas(spec)
    /\ UNCHANGED <<mounted, active, spec, svgRef, license, cart, storeOpen,
                   checkoutState, assets, seo, docTitle, docMeta, docBody,
                   objectUrls, lastExport>>

NextGen == Generate

SpecGen == InitGen /\ [][NextGen]_vars

-----------------------------------------------------------------------------
(* The mounted tree                                                        *)

\* React keys order list items during reconciliation and are not part of
\* the DOM: the committed node keeps every attribute but the key.
RECURSIVE ToDom(_)
ToDom(e) ==
    [f \in (DOMAIN e) \ {"key"} |->
        IF f = "children"
        THEN [i \in DOMAIN e.children |-> ToDom(e.children[i])]
        ELSE e[f]]

\* <svg ref={svgRef} ...><g><MandalaCanvas spec={spec} .../></g></svg>
AppSvg(s) ==
    [tag |-> "svg", width |-> SvgSize, height |-> SvgSize, viewBox |-> "0 0 420 420",
     role |-> "img", ariaLabel |-> "Mandala SVG", style |-> "display:block",
     children |-> <<[tag |-> "g", children |-> <<MandalaCanvas(s)>>]>>]

\* svgRef.current after a commit: {active === 'builder' && (...)}
RenderStale(s, a) == IF a = "builder" THEN ToDom(AppSvg(InitSpec)) ELSE NoNode
Render(s, a) == IF a = "builder" THEN ToDom(AppSvg(s)) ELSE NoNode

-----------------------------------------------------------------------------
(* exportSVG                                                               *)

\* The standalone root and the children moved into it out of the clone.
ExportDocumentNoGuard(el) ==
    [tag |-> "svg", xmlns |-> "http://www.w3.org/2000/svg", width |-> "420",
     height |-> "420", viewBox |-> "0 0 420 420",
     children |-> IF el = NoNode THEN <<>> ELSE el.children]
ExportDocument(el) ==
    IF el = NoNode
    THEN NoNode
    ELSE [tag |-> "svg", xmlns |-> "http://www.w3.org/2000/svg", width |-> "420",
          height |-> "420", viewBox |-> "0 0 420 420",
          children |-> el.children]

\* XMLSerializer.serializeToString: the markup as a token sequence in
\* document order, a start tag with its attributes and an end tag per element.
RECURSIVE Serialize(_)
RECURSIVE SerializeAll(_)
Serialize(node) ==
    <<[open |-> [f \in (DOMAIN node) \ {"children"} |-> node[f]]]>>
        \o (IF "children" \in DOMAIN node THEN SerializeAll(node.children) ELSE <<>>)
        \o <<[close |-> node.tag]>>
SerializeAll(nodes) ==
    IF nodes = <<>> THEN <<>> ELSE Serialize(Head(nodes)) \o SerializeAll(Tail(nodes))

NewBlob(source, type) == [source |-> source, type |-> type]

\* What a call of exportSVG that returned at `if (!el) return` leaves behind.
ExportNoop ==
    [tag |-> "export", outer |-> NoNode, blob |-> NoNode, url |-> FALSE,
     download |-> Null, clicked |-> FALSE, raised |-> FALSE]

Commit ==
    svgRef' = Render(spec', active')

\* The mounted tree once exportSVG has run: el.cloneNode(true) copies it and
\* the loop moves the children out of the copy, so it keeps its children.
LiveAfterExportNoClone(el) ==
    [f \in DOMAIN el |-> IF f = "children" THEN <<>> ELSE el[f]]
LiveAfterExport(el) == el

exportSVG ==
    \E raises \in BOOLEAN :
        LET outer == ExportDocument(svgRef)
        IN  IF outer = NoNode
            THEN /\ lastExport' = ExportNoop
                 /\ UNCHANGED <<mounted, active, spec, svgRef, license, cart, storeOpen,
                                checkoutState, assets, seo, docTitle, docMeta, docBody,
                                objectUrls, scene>>
            ELSE /\ objectUrls < MaxUrls
                 /\ lastExport' =
                        [tag |-> "export", outer |-> outer,
                         blob |-> NewBlob(Serialize(outer), "image/svg+xml;charset=utf-8"),
                         url |-> TRUE, download |-> "mandala.svg",
                         clicked |-> TRUE, raised |-> raises]
                 \* a.click() raising skips a.remove() and URL.revokeObjectURL(url)
                 /\ docBody' = IF raises THEN docBody + 1 ELSE docBody
                 /\ objectUrls' = IF raises THEN objectUrls + 1 ELSE objectUrls
                 /\ svgRef' = LiveAfterExport(svgRef)
                 /\ UNCHANGED <<mounted, active, spec, license, cart, storeOpen,
                                checkoutState, assets, seo, docTitle, docMeta, scene>>

-----------------------------------------------------------------------------
(* The App                                                                 *)

SliderStops ==
    {n \in SliderMin .. SliderMax : n <= SliderMin + MaxSliderSpan \/ n = InitSpec.segments}

Titles == {"Mandala Portfolio", ""}
TagLists == {<<>>, <<"sample">>}
FileNames == {"a.png"}

SeedAsset == [id |-> "sample-blank", name |-> "Sample Mandala Asset", tags |-> <<"sample">>]

\* document.title = seo.title || 'Mandala Portfolio'
TitleEffect(t) == IF t = "" THEN "Mandala Portfolio" ELSE t

Init ==
    /\ AppIdle
    /\ spec = InitSpec
    /\ scene = NoNode

\* First commit: the ref is attached, then the two effects run.
Mount ==
    /\ ~mounted
    /\ mounted' = TRUE
    /\ assets' = IF Len(assets) = 0 THEN <<SeedAsset>> ELSE assets
    /\ docTitle' = TitleEffect(seo.title)
    /\ lastExport' = NoNode
    /\ UNCHANGED <<active, spec, license, cart, storeOpen, checkoutState, seo,
                   docMeta, docBody, objectUrls, scene>>
    /\ Commit

setActive ==
    /\ mounted
    /\ \E t \in Tabs : active' = t
    /\ lastExport' = NoNode
    /\ UNCHANGED <<mounted, spec, license, cart, storeOpen, checkoutState, assets, seo,
                   docTitle, docMeta, docBody, objectUrls, scene>>
    /\ Commit

\* The four builder controls: each replaces the spec by a copy with one field changed.
setSpec ==
    /\ mounted
    /\ \/ \E n \in SliderStops : spec' = [spec EXCEPT !.segments = n]
       \/ \E t \in Symmetries : spec' = [spec EXCEPT !.symmetry = t]
       \/ \E c \in Colors : spec' = [spec EXCEPT !.color = c]
       \/ \E b \in BOOLEAN : spec' = [spec EXCEPT !.showWatermark = b]
    /\ lastExport' = NoNode
    /\ UNCHANGED <<mounted, active, license, cart, storeOpen, checkoutState, assets, seo,
                   docTitle, docMeta, docBody, objectUrls, scene>>
    /\ Commit

setLicense ==
    /\ mounted
    /\ \E l \in LICENSES : license' = l
    /\ lastExport' = NoNode
    /\ UNCHANGED <<mounted, active, spec, cart, storeOpen, checkoutState, assets, seo,
                   docTitle, docMeta, docBody, objectUrls, scene>>
    /\ Commit

RECURSIVE CartQuantity(_)
CartQuantity(c) == IF c = <<>> THEN 0 ELSE Head(c).quantity + CartQuantity(Tail(c))

addToCart ==
    /\ mounted
    /\ CartQuantity(cart) < MaxCartQty
    /\ \E item \in STORE_ITEMS :
        cart' = IF \E k \in DOMAIN cart : cart[k].id = item
                THEN [k \in DOMAIN cart |->
                        IF cart[k].id = item
                        THEN [cart[k] EXCEPT !.quantity = @ + 1]
                        ELSE cart[k]]
                ELSE Append(cart, [id |-> item, quantity |-> 1])
    /\ storeOpen' = TRUE
    /\ lastExport' = NoNode
    /\ UNCHANGED <<mounted, active, spec, license, checkoutState, assets, seo,
                   docTitle, docMeta, docBody, objectUrls, scene>>
    /\ Commit

toggleCart ==
    /\ mounted
    /\ storeOpen' = ~storeOpen
    /\ lastExport' = NoNode
    /\ UNCHANGED <<mounted, active, spec, license, cart, checkoutState, assets, seo,
                   docTitle, docMeta, docBody, objectUrls, scene>>
    /\ Commit

clearCart ==
    /\ mounted
    /\ storeOpen
    /\ cart # <<>>
    /\ cart' = <<>>
    /\ lastExport' = NoNode
    /\ UNCHANGED <<mounted, active, spec, license, storeOpen, checkoutState, assets, seo,
                   docTitle, docMeta, docBody, objectUrls, scene>>
    /\ Commit

\* checkout up to its await
checkout ==
    /\ mounted
    /\ storeOpen
    /\ cart # <<>>
    /\ checkoutState # "processing"
    /\ checkoutState' = "processing"
    /\ lastExport' = NoNode
    /\ UNCHANGED <<mounted, active, spec, license, cart, storeOpen, assets, seo,
                   docTitle, docMeta, docBody, objectUrls, scene>>
    /\ Commit

\* checkout after the one second timer
checkoutDone ==
    /\ mounted
    /\ checkoutState = "processing"
    /\ checkoutState' = "success"
    /\ cart' = <<>>
    /\ lastExport' = NoNode
    /\ UNCHANGED <<mounted, active, spec, license, storeOpen, assets, seo,
                   docTitle, docMeta, docBody, objectUrls, scene>>
    /\ Commit

onBulkUpload ==
    /\ mounted
    /\ Len(assets) < MaxAssets
    /\ \E name \in FileNames :
        assets' = Append(assets, [id |-> "asset-0", name |-> name, tags |-> <<>>])
    /\ lastExport' = NoNode
    /\ UNCHANGED <<mounted, active, spec, license, cart, storeOpen, checkoutState, seo,
                   docTitle, docMeta, docBody, objectUrls, scene>>
    /\ Commit

\* The tag input of one asset; every asset with that id gets the tags.
setTags ==
    /\ mounted
    /\ \E k \in DOMAIN assets, tags \in TagLists :
        assets' = [j \in DOMAIN assets |->
                      IF assets[j].id = assets[k].id
                      THEN [assets[j] EXCEPT !.tags = tags]
                      ELSE assets[j]]
    /\ lastExport' = NoNode
    /\ UNCHANGED <<mounted, active, spec, license, cart, storeOpen, checkoutState, seo,
                   docTitle, docMeta, docBody, objectUrls, scene>>
    /\ Commit

\* The title field of the SEO form; the title effect runs after the commit.
setSeo ==
    /\ mounted
    /\ \E t \in Titles : seo' = [seo EXCEPT !.title = t]
    /\ docTitle' = IF seo'.title # seo.title THEN TitleEffect(seo'.title) ELSE docTitle
    /\ lastExport' = NoNode
    /\ UNCHANGED <<mounted, active, spec, license, cart, storeOpen, checkoutState, assets,
                   docMeta, docBody, objectUrls, scene>>
    /\ Commit

\* "Publish SEO Data"
publishSeo ==
    /\ mounted
    /\ objectUrls < MaxUrls
    /\ \E raises \in BOOLEAN :
        /\ docMeta' = seo.description
        /\ docTitle' = seo.title
        /\ objectUrls' = IF raises THEN objectUrls + 1 ELSE objectUrls
    /\ lastExport' = NoNode
    /\ UNCHANGED <<mounted, active, spec, license, cart, storeOpen, checkoutState, assets,
                   seo, docBody, scene>>
    /\ Commit

\* The builder: the controls of the mandala, the tabs and the export button.
Next ==
    \/ Mount
    \/ exportSVG
    \/ setActive
    \/ setSpec

Spec == Init /\ [][Next]_vars

\* The collaborators around the builder: licensing, store, CMS and SEO, with
\* the builder controls left at their initial positions.
NextApp ==
    \/ Mount
    \/ exportSVG
    \/ setActive
    \/ setLicense
    \/ addToCart
    \/ toggleCart
    \/ clearCart
    \/ checkout
    \/ checkoutDone
    \/ onBulkUpload
    \/ setTags
    \/ setSeo
    \/ publishSeo

SpecApp == Init /\ [][NextApp]_vars

-----------------------------------------------------------------------------
(* Properties of the generator, checked under SpecGen                      *)

Generated == scene # NoNode

\* Positions of the children of the generated scene with a given tag.
TagAt(tag) == {i \in DOMAIN scene.children : scene.children[i].tag = tag}

\* Positions of the wedges pushed under a given key prefix.
RingAt(ring) == {i \in TagAt("polygon") : scene.children[i].key[1] = ring}

ValidSegments == spec.segments \in SliderMin .. SliderMax

WedgeCount == IF spec.symmetry = "mirror" THEN 4 * spec.segments ELSE 2 * spec.segments

WatermarkCount == IF spec.showWatermark THEN 1 ELSE 0

\* C1 (as stated): for segments in [3,48] the scene holds 2n wedges (radial)
\* or 4n wedges (mirror), and nothing else but one center dot and one text
\* per enabled watermark: 2n+1+w resp. 4n+1+w primitives in all.
C1_OnlyWedgesDotAndText ==
    (Generated /\ ValidSegments) =>
        /\ Cardinality(TagAt("polygon")) = WedgeCount
        /\ Cardinality(TagAt("circle")) = 1
        /\ Cardinality(TagAt("text")) = WatermarkCount
        /\ Len(scene.children) = WedgeCount + 1 + WatermarkCount

\* C1 (amended): for segments in [3,48] the scene holds 2n wedges (radial) or
\* 4n wedges (mirror), one center dot, one text per enabled watermark, and
\* two more children, a <defs> element and a transparent background <rect>,
\* at its head: 2n+3+w resp. 4n+3+w children in all.
C1_WedgesDotTextDefsAndRect ==
    (Generated /\ ValidSegments) =>
        /\ Cardinality(TagAt("polygon")) = WedgeCount
        /\ Cardinality(TagAt("circle")) = 1
        /\ Cardinality(TagAt("text")) = WatermarkCount
        /\ TagAt("defs") = {1}
        /\ TagAt("rect") = {2}
        /\ Len(scene.children) = WedgeCount + 3 + WatermarkCount

C1_Witness ==
    /\ Generated
    /\ spec.segments = 12
    /\ spec.symmetry = "mirror"
    /\ spec.showWatermark
    /\ Cardinality(TagAt("polygon")) = 48
    /\ Len(scene.children) = 52

\* C2: painter order.  Every primary outer wedge precedes every primary inner
\* wedge, so inner wedge i comes after outer wedge i; mirror inner wedge i
\* comes after mirror outer wedge i; every mirror wedge comes after every
\* primary wedge; the watermark, when present, comes after every wedge and
\* directly before the center dot; the center dot is the last child.
C2_PainterOrder ==
    Generated =>
        LET ch == scene.children
            KeyAt(ring, i) == {a \in RingAt(ring) : ch[a].key[2] = i}
        IN  /\ \A a \in RingAt("ow"), b \in RingAt("iw") : a < b
            /\ \A i \in 0 .. (spec.segments - 1) :
                /\ Cardinality(KeyAt("ow", i)) = 1
                /\ Cardinality(KeyAt("iw", i)) = 1
                /\ spec.symmetry = "mirror" =>
                    /\ Cardinality(KeyAt("mw", i)) = 1
                    /\ Cardinality(KeyAt("mi", i)) = 1
                    /\ \A a \in KeyAt("mw", i), b \in KeyAt("mi", i) : a < b
            /\ \A a \in RingAt("ow") \cup RingAt("iw"),
                  b \in RingAt("mw") \cup RingAt("mi") : a < b
            /\ \A t \in TagAt("text") :
                /\ \A a \in TagAt("polygon") : a < t
                /\ t = Len(ch) - 1
            /\ Len(ch) >= 1
            /\ ch[Len(ch)].tag = "circle"
            /\ ch[Len(ch)].r = 6

C2_Witness ==
    /\ Generated
    /\ spec.segments = 12
    /\ spec.symmetry = "mirror"
    /\ spec.showWatermark
    /\ RingAt("mi") # {}
    /\ TagAt("text") = {Len(scene.children) - 1}

\* C3: the generator clamps the segment count: a call with segments below 3
\* yields the scene of segments = 3, a call with segments above 48 the
\* scene of segments = 48, and no call throws.
C3_GeneratorClamps ==
    Generated =>
        /\ ~GeneratorThrows(spec)
        /\ scene = MandalaCanvas([spec EXCEPT !.segments = clamp(@, SliderMin, SliderMax)])

\* C8: the scene holds a watermark text exactly when spec.showWatermark; it
\* is anchored at the center (210,210), has font size 42, opacity 0.15 and
\* the label "MANDALA", whatever the other fields of the spec are.
C8_WatermarkIffEnabled ==
    Generated =>
        /\ spec.showWatermark <=> TagAt("text") # {}
        /\ Cardinality(TagAt("text")) <= 1
        /\ \A t \in TagAt("text") :
            LET e == scene.children[t]
            IN  /\ e.at.cx = 210 /\ e.at.cy = 210 /\ e.at.r = 0
                /\ e.fontSize = 42
                /\ e.opacity = 15
                /\ e.content = "MANDALA"

C8_Witness ==
    /\ Generated
    /\ spec.showWatermark
    /\ spec.symmetry = "radial"
    /\ spec.color # InitSpec.color
    /\ TagAt("text") # {}

\* Two angles differ by a multiple of a half turn.
HalfTurnApart(a, b) == (2 * (a[1] * b[2] - b[1] * a[2])) % (a[2] * b[2]) = 0

\* A wedge with its apex at the center and two rim points encloses an area
\* when the rim points are off the center and not on one line through it.
NonDegenerate(w) ==
    LET p == w.points
    IN  /\ p[1] # p[2] /\ p[1] # p[3] /\ p[2] # p[3]
        /\ p[1].r = 0 /\ p[2].r > 0 /\ p[3].r > 0
        /\ ~HalfTurnApart(p[2].ang, p[3].ang)

\* C9: for every integer segment count the generator either fails or emits
\* only wedges with three distinct, non-collinear vertices.
C9_NoDegenerateWedge ==
    Generated =>
        \/ GeneratorThrows(spec)
        \/ \A a \in TagAt("polygon") : NonDegenerate(scene.children[a])

\* The wedge pushed under a given key.
WedgeOf(ring, i) ==
    scene.children[CHOOSE a \in RingAt(ring) : scene.children[a].key[2] = i]

\* The sector a wedge spans: its two rim points, in no order.
Sector(w) == {w.points[2], w.points[3]}

SectorsOf(ring) == {Sector(scene.children[a]) : a \in RingAt(ring)}

-----------------------------------------------------------------------------
(* Properties of the builder, checked under Spec                           *)

\* The primitives of the scene on screen: svg > g > svg > children.
OnScreen == svgRef.children[1].children[1].children

Exported == lastExport # NoNode /\ lastExport.outer # NoNode

\* C4: a call of exportSVG while no render is mounted does not throw, makes
\* no document, acquires no object URL, does not click the download anchor
\* and changes nothing of the application's state.
C4_ExportWithoutRenderIsNoop ==
    [][(svgRef = NoNode /\ lastExport' # NoNode) =>
        /\ lastExport' = ExportNoop
        /\ UNCHANGED <<mounted, active, spec, svgRef, license, cart, storeOpen,
                       checkoutState, assets, seo, docTitle, docMeta, docBody,
                       objectUrls, scene>>]_vars

C4_Witness ==
    /\ mounted
    /\ active # "builder"
    /\ svgRef = NoNode
    /\ lastExport = ExportNoop
    /\ objectUrls = 0

\* C5: an export of a live render yields a root declaring width 420, height
\* 420 and viewBox "0 0 420 420" whose children are the primitives of the
\* scene on screen, directly and in their order.
C5_ExportTransplantsPrimitives ==
    Exported =>
        /\ lastExport.outer.width = "420"
        /\ lastExport.outer.height = "420"
        /\ lastExport.outer.viewBox = "0 0 420 420"
        /\ lastExport.outer.children = OnScreen

\* C6: every object URL an export acquires is revoked by the time the export
\* ends, also when the click of the download anchor raises.
C6_NoObjectUrlLeft ==
    objectUrls = 0

\* C7: whenever the builder view is mounted, the scene on screen is the one
\* generated from the current spec, and an export taken then serializes that
\* scene.
C7_OnScreenIsCurrentSpec ==
    /\ (mounted /\ active = "builder") =>
        /\ svgRef # NoNode
        /\ OnScreen = ToDom(MandalaCanvas(spec)).children
    /\ Exported =>
        lastExport.blob.source =
            Serialize([tag |-> "svg", xmlns |-> "http://www.w3.org/2000/svg",
                       width |-> "420", height |-> "420", viewBox |-> "0 0 420 420",
                       children |-> ToDom(AppSvg(spec)).children])

C7_Witness ==
    /\ Exported
    /\ spec.segments = SliderMin
    /\ spec.symmetry = "mirror"
    /\ ~spec.showWatermark
    /\ spec.color # InitSpec.color

\* C12: an export leaves the mounted tree and the spec as they were, and an
\* export that directly follows another one, with no edit in between,
\* produces the same document.
C12_ExportKeepsLiveRender ==
    [][lastExport' # NoNode =>
        /\ svgRef' = svgRef
        /\ spec' = spec
        /\ (lastExport # NoNode) =>
            /\ lastExport'.outer = lastExport.outer
            /\ lastExport'.blob = lastExport.blob
            /\ lastExport'.download = lastExport.download]_vars

C12_Witness ==
    /\ Exported
    /\ svgRef # NoNode
    /\ Len(svgRef.children) = 1
    /\ lastExport.outer.children = svgRef.children
    /\ OnScreen = ToDom(MandalaCanvas(spec)).children
    /\ spec # InitSpec

-----------------------------------------------------------------------------
(* Properties of the App, checked under SpecApp                            *)

\* C10: an export leaves the document (title, description meta tag, body)
\* and the cart, license, asset, SEO and tab state as they were, and no SEO,
\* cart, license or asset operation changes the scene on screen.
C10_CoreIsolated ==
    [][/\ lastExport' # NoNode =>
            UNCHANGED <<docTitle, docMeta, docBody, cart, storeOpen, checkoutState,
                        license, assets, seo, active>>
       /\ (mounted /\ <<seo, docTitle, docMeta, cart, storeOpen, checkoutState,
                        license, assets>>' #
                      <<seo, docTitle, docMeta, cart, storeOpen, checkoutState,
                        license, assets>>) =>
            UNCHANGED svgRef]_vars

\* The part of C10 the code keeps: the same with document.body left out.
C10_IsolatedButBody ==
    [][/\ lastExport' # NoNode =>
            UNCHANGED <<docTitle, docMeta, cart, storeOpen, checkoutState,
                        license, assets, seo, active>>
       /\ (mounted /\ <<seo, docTitle, docMeta, cart, storeOpen, checkoutState,
                        license, assets>>' #
                      <<seo, docTitle, docMeta, cart, storeOpen, checkoutState,
                        license, assets>>) =>
            UNCHANGED svgRef]_vars

====
